---- MODULE Spec2Model ----
(***************************************************************************)
(* A model of camel/toolkits/reddit_toolkit.py: the RedditToolkit class.   *)
(* The toolkit holds a retry count, a delay and a client handle; its       *)
(* operations are _retry_request (the retry wrapper), collect_top_posts,   *)
(* perform_sentiment_analysis and track_keyword_discussions.               *)
(*                                                                         *)
(* Python values are modelled as follows.  A str is a sequence of one      *)
(* character strings.  A dict is a function whose DOMAIN is its key set.   *)
(* A list is a sequence; a list that is shared with the caller lives in    *)
(* the heap and is named by its identity.  An exception is a record of its *)
(* class and of the place and invocation that raised it.                   *)
(***************************************************************************)
EXTENDS Integers, Sequences, FiniteSets, TLC

\* ------------------------------------------------------------------ bounds
MaxRetries == 3
MaxPostLimit == 2
MaxCommentLimit == 2
MaxItems == 2

\* ------------------------------------------------------------ Python values
None == [none |-> TRUE]

\* str.lower() on one character, over the alphabet the model uses
LowerChar(c) ==
  CASE c = "A" -> "a"
    [] c = "B" -> "b"
    [] OTHER -> c

\* str.lower()
lower(s) == [i \in DOMAIN s |-> LowerChar(s[i])]

\* the `in` operator on two str values: k is a substring of s
contains(s, k) ==
  \E i \in 0..(Len(s) - Len(k)) : SubSeq(s, i + 1, i + Len(k)) = k

\* s[:n] for n >= 0
Prefix(s, n) == SubSeq(s, 1, IF n < Len(s) THEN n ELSE Len(s))

SeqsUpTo(S, n) == UNION {[1..k -> S] : k \in 0..n}

\* ------------------------------------------------- the external API client
\* The texts that occur on the modelled site.
TxtGreat == <<"x", "A", "b">>
TxtPlain == <<"b", "a">>
TxtEmpty == <<>>

Cmt(b, s) == [body |-> b, score |-> s]
Pst(t, cs) == [title |-> t, comments |-> cs]

\* What the site holds: per subreddit its posts in "top" order, each post
\* with its comments in the order the client lists them.
Site ==
  [r1 |-> << Pst("P1", << Cmt(TxtGreat, 5), Cmt(TxtPlain, 3), Cmt(TxtGreat, 1) >>),
             Pst("P2", << >>),
             Pst("P3", << Cmt(TxtPlain, 7) >>) >>,
   r2 |-> << Pst("P4", << Cmt(TxtEmpty, 0), Cmt(TxtGreat, 2) >>) >>]

SubredditNames == DOMAIN Site

\* reddit.subreddit(name): a handle on the named subreddit
Subreddit(name) == [subreddit |-> name]

\* subreddit.top(limit=n): a listing of at most n posts, in "top" order
Top(handle, n) == Prefix(Site[handle.subreddit], n)

\* list(post.comments)
CommentsOf(post) == post.comments

\* One call of the client (or of the operation handed to the wrapper) ends
\* in one of these ways.
Outcomes == {"ok", "transient", "fatal"}

\* The exception an invocation raises: RequestException for a transient
\* network failure, some other class otherwise.
Raised(o, site, n) ==
  [class |-> IF o = "transient" THEN "RequestException" ELSE "OtherError",
   site |-> site, n |-> n]

NoError == [class |-> "none", site |-> "none", n |-> 0]

\* What invocation n of the operation handed to _retry_request returns when
\* the operation is a stand-in (a direct call of the wrapper).
Returned(site, n) == [returned |-> site, n |-> n]

\* An entry of the trace of a wrapper call: "invoke" (the wrapped operation
\* is invoked for the n-th time), "log" (print of attempt n), "sleep"
\* (time.sleep of n seconds before the next attempt).
Ev(kind, site, n) == [e |-> kind, site |-> site, n |-> n, err |-> NoError]

\* print(f"Attempt {attempt + 1}/{self.retries} failed: {e}"): the entry
\* carries the attempt number and the exception whose message it prints.
LogEntry(site, n, err) == [e |-> "log", site |-> site, n |-> n, err |-> err]

\* ------------------------------------------------------------------- state
VARIABLES
  retries,    \* self.retries
  delay,      \* self.delay
  reddit,     \* self.reddit, the client handle
  pc,         \* where the running call stands; "idle" / "done" between calls
  op,         \* the operation that is running or has just ended
  args,       \* its arguments
  attempt,    \* _retry_request: the loop variable of the running wrapper call
  calls,      \* _retry_request: invocations of func by the running wrapper call
  subreddit,  \* local: the subreddit handle
  top_posts,  \* local: the listing
  si,         \* position of the loop over subreddits
  pi,         \* position of the loop over top_posts
  ci,         \* position of the loop over a list (comments, or data)
  comments,   \* the comments fetched for the current post, cut to comment_limit
  heap,       \* lists by identity: the argument list and the list `data`
  data,       \* local: identity of the list `data`
  events,     \* trace of the running wrapper call
  outcomes,   \* how each invocation of func ended, in the running wrapper call
  pauses,     \* calls of time.sleep after a post (lines 130, 209) in this call
  scores,     \* invocations of TextBlob in this call
  result,     \* how the last call ended
  held        \* ghost: the lists the caller still holds from earlier calls,
              \* as they were returned (the lists themselves are in heap)

vars == << retries, delay, reddit, pc, op, args, attempt, calls, subreddit,
           top_posts, si, pi, ci, comments, heap, data, events, outcomes,
           pauses, scores, result, held >>

config == << retries, delay, reddit >>
locals == << subreddit, top_posts, si, pi, ci, comments >>
frame == << attempt, calls, events, outcomes >>
counters == << pauses, scores >>

NoArgs ==
  [subreddit_name |-> "none", post_limit |-> 0, comment_limit |-> 0,
   subreddits |-> << >>, keywords |-> << >>, sentiment_analysis |-> FALSE,
   data |-> 0, input |-> << >>]

NoResult == [kind |-> "none", value |-> None, error |-> NoError]
Return(v) == [kind |-> "return", value |-> v, error |-> NoError]
Raise(err) == [kind |-> "raise", value |-> None, error |-> err]

\* RedditToolkit.__init__
Init ==
  /\ retries \in (0 - 1)..MaxRetries
  /\ delay \in {0, 1}
  /\ reddit = "client"
  /\ pc = "idle"
  /\ op = "none"
  /\ args = NoArgs
  /\ attempt = 0
  /\ calls = 0
  /\ subreddit = None
  /\ top_posts = << >>
  /\ si = 0
  /\ pi = 0
  /\ ci = 0
  /\ comments = << >>
  /\ heap = << >>
  /\ data = 0
  /\ events = << >>
  /\ outcomes = << >>
  /\ pauses = 0
  /\ scores = 0
  /\ result = NoResult
  /\ held = << >>

\* ------------------------------------------------------- _retry_request
\* One pass of the loop `for attempt in range(self.retries)` at loop index
\* att, after n invocations, when this invocation of func ends as o and, if
\* it succeeds, returns val.  caught: the outcomes the except clause catches;
\* last: the loop index after which a caught failure is raised again.
\* status "again": the loop goes on at .attempt; "return": the wrapper
\* returns .value (.none when the loop ran out and the function falls off
\* its end); "raise": the wrapper raises .error.
retry_pass(att, n, o, site, val, caught, last) ==
  IF ~(att < retries)
  THEN [status |-> "return", none |-> TRUE, value |-> None, error |-> NoError,
        attempt |-> att, calls |-> n, events |-> << >>]
  ELSE
    LET inv == Ev("invoke", site, n + 1)
        err == Raised(o, site, n + 1)
        log == LogEntry(site, att + 1, err)
    IN CASE o = "ok" ->
              [status |-> "return", none |-> FALSE, value |-> val,
               error |-> NoError, attempt |-> att, calls |-> n + 1,
               events |-> << inv >>]
         [] o \in caught /\ att < last ->
              [status |-> "again", none |-> FALSE, value |-> None,
               error |-> NoError, attempt |-> att + 1, calls |-> n + 1,
               events |-> << inv, log, Ev("sleep", "retry", delay) >>]
         [] o \in caught /\ ~(att < last) ->
              [status |-> "raise", none |-> FALSE, value |-> None,
               error |-> err, attempt |-> att, calls |-> n + 1,
               events |-> << inv, log >>]
         [] OTHER ->
              [status |-> "raise", none |-> FALSE, value |-> None,
               error |-> err, attempt |-> att, calls |-> n + 1,
               events |-> << inv >>]

\* Variants of the wrapper: it gives up one attempt early; it never raises
\* a caught failure again (and so waits after the last attempt too); it
\* catches every exception.
retry_request_early(att, n, o, site, val) ==
  retry_pass(att, n, o, site, val, {"transient"}, retries - 2)

retry_request_silent(att, n, o, site, val) ==
  retry_pass(att, n, o, site, val, {"transient"}, retries)

retry_request_any(att, n, o, site, val) ==
  retry_pass(att, n, o, site, val, {"transient", "fatal"}, retries - 1)

\* Variant: a retries that is not positive is refused.
retry_request_checked(att, n, o, site, val) ==
  IF retries <= 0
  THEN [status |-> "raise", none |-> FALSE, value |-> None,
        error |-> [class |-> "ValueError", site |-> site, n |-> 0],
        attempt |-> att, calls |-> n, events |-> << >>]
  ELSE retry_pass(att, n, o, site, val, {"transient"}, retries - 1)

\* _retry_request: `except RequestException`, `if attempt < self.retries - 1`
retry_request(att, n, o, site, val) ==
  retry_pass(att, n, o, site, val, {"transient"}, retries - 1)

\* A call starts only when no call is running.
Ready == pc = "idle"

\* The frame of a call that starts.
Enter(name, a) ==
  /\ op' = name
  /\ args' = a
  /\ attempt' = 0
  /\ calls' = 0
  /\ subreddit' = None
  /\ top_posts' = << >>
  /\ si' = 0
  /\ pi' = 0
  /\ ci' = 0
  /\ comments' = << >>
  /\ events' = << >>
  /\ outcomes' = << >>
  /\ pauses' = 0
  /\ scores' = 0
  /\ result' = NoResult
  /\ UNCHANGED << config, held >>

\* A caller hands an operation to self._retry_request(func).
CallRetryRequest ==
  /\ Ready
  /\ Enter("retry", NoArgs)
  /\ pc' = "retry"
  /\ heap' = heap
  /\ data' = 0

\* _retry_request called directly: one pass of its loop.
RetryRequestStep(o) ==
  /\ pc = "retry"
  /\ LET r == retry_request(attempt, calls, o, "func", Returned("func", calls + 1))
     IN /\ attempt' = r.attempt
        /\ calls' = r.calls
        /\ events' = events \o r.events
        /\ outcomes' = (IF r.calls > calls THEN Append(outcomes, o) ELSE outcomes)
        /\ pc' = IF r.status = "again" THEN "retry" ELSE "done"
        /\ result' = CASE r.status = "return" -> Return(r.value)
                       [] r.status = "raise" -> Raise(r.error)
                       [] OTHER -> result
  /\ UNCHANGED << config, held, op, args, locals, heap, data, pauses, scores >>

\* Variant: the attempt counter lives on across wrapper calls.
WrapperFrameCarried(r, o) ==
  /\ attempt' = r.attempt
  /\ calls' = (IF r.status = "return" THEN 0 ELSE r.calls)
  /\ events' = (IF r.status = "return" THEN << >> ELSE events \o r.events)
  /\ outcomes' = (IF r.status = "return" THEN << >> ELSE Append(outcomes, o))

\* What a wrapper call inside an operation leaves in the frame: the loop
\* variable and the count start again at 0 for the next wrapper call.
WrapperFrame(r, o) ==
  /\ attempt' = (IF r.status = "return" THEN 0 ELSE r.attempt)
  /\ calls' = (IF r.status = "return" THEN 0 ELSE r.calls)
  /\ events' = (IF r.status = "return" THEN << >> ELSE events \o r.events)
  /\ outcomes' = (IF r.status = "return" THEN << >> ELSE Append(outcomes, o))

\* An error raised by the interpreter itself, not by the client.
PyError(class, site) == [class |-> class, site |-> site, n |-> 0]

\* -------------------------------------------------------- collect_top_posts
\* {"Comment Body": comment.body, "Upvotes": comment.score}
CommentRecord(c) == ("Comment Body" :> c.body) @@ ("Upvotes" :> c.score)

\* post_data, lines 120-128
PostRecord(post, cs) ==
  ("Post Title" :> post.title) @@
  ("Comments" :> [j \in 1..Len(cs) |-> CommentRecord(cs[j])])

\* The limit handed to subreddit.top, line 116.
CollectTopLimit(a) == a.post_limit

\* Variant: the comment list is not cut.
CollectCutNone(cs, a) == cs

\* The cut of the comment list, line 126.
CollectCut(cs, a) == Prefix(cs, a.comment_limit)

CallCollectTopPosts(name, pl, cl) ==
  /\ Ready
  /\ Enter("collect", [NoArgs EXCEPT !.subreddit_name = name,
                                     !.post_limit = pl, !.comment_limit = cl])
  /\ pc' = "c115"
  /\ heap' = heap
  /\ data' = 0

\* line 115: subreddit = self._retry_request(self.reddit.subreddit, name)
Collect115(o) ==
  /\ pc = "c115"
  /\ LET r == retry_request(attempt, calls, o, "subreddit",
                            Subreddit(args.subreddit_name))
     IN /\ WrapperFrame(r, o)
        /\ subreddit' = (IF r.status = "return" THEN r.value ELSE subreddit)
        /\ pc' = CASE r.status = "again" -> "c115"
                   [] r.status = "return" -> "c116"
                   [] OTHER -> "done"
        /\ result' = (IF r.status = "raise" THEN Raise(r.error) ELSE result)
  /\ UNCHANGED << config, held, op, args, top_posts, si, pi, ci, comments, heap,
                  data, counters >>

\* lines 116-117: top_posts = self._retry_request(subreddit.top, limit=...)
\* and data = [].  subreddit.top is evaluated before the wrapper is entered.
Collect116(o) ==
  /\ pc = "c116"
  /\ IF subreddit = None
     THEN /\ o = "ok"
          /\ pc' = "done"
          /\ result' = Raise(PyError("AttributeError", "top"))
          /\ UNCHANGED << frame, top_posts, heap, data >>
     ELSE LET r == retry_request(attempt, calls, o, "top",
                                 Top(subreddit, CollectTopLimit(args)))
          IN /\ WrapperFrame(r, o)
             /\ top_posts' = (IF r.status = "return" /\ ~r.none
                              THEN r.value ELSE top_posts)
             /\ heap' = (IF r.status = "return" THEN Append(heap, << >>)
                         ELSE heap)
             /\ data' = (IF r.status = "return" THEN Len(heap) + 1 ELSE data)
             /\ pc' = CASE r.status = "again" -> "c116"
                        [] r.status = "return" /\ ~r.none -> "c119"
                        [] OTHER -> "done"
             /\ result' = CASE r.status = "raise" -> Raise(r.error)
                            [] r.status = "return" /\ r.none ->
                                 Raise(PyError("TypeError", "iter"))
                            [] OTHER -> result
  /\ UNCHANGED << config, held, op, args, subreddit, si, pi, ci, comments, counters >>

\* line 119: `for post in top_posts` takes the next post from the client's
\* listing, or the loop ends and line 132 returns data.
Collect119(o) ==
  /\ pc = "c119"
  /\ IF pi < Len(top_posts)
     THEN /\ pc' = (IF o = "ok" THEN "c121" ELSE "done")
          /\ result' = (IF o = "ok" THEN result
                        ELSE Raise(Raised(o, "iter", pi + 1)))
     ELSE /\ o = "ok"
          /\ pc' = "done"
          /\ result' = Return(data)
  /\ UNCHANGED << config, held, op, args, frame, locals, heap, data, counters >>

\* line 121: "Post Title": post.title
Collect121(o) ==
  /\ pc = "c121"
  /\ pc' = (IF o = "ok" THEN "c124" ELSE "done")
  /\ result' = (IF o = "ok" THEN result ELSE Raise(Raised(o, "title", pi + 1)))
  /\ UNCHANGED << config, held, op, args, frame, locals, heap, data, counters >>

\* lines 124-126: self._retry_request(lambda: list(post.comments))[:comment_limit]
Collect124(o) ==
  /\ pc = "c124"
  /\ LET r == retry_request(attempt, calls, o, "comments",
                            CommentsOf(top_posts[pi + 1]))
     IN /\ WrapperFrame(r, o)
        /\ comments' = (IF r.status = "return" /\ ~r.none
                        THEN CollectCut(r.value, args) ELSE comments)
        /\ pc' = CASE r.status = "again" -> "c124"
                   [] r.status = "return" /\ ~r.none -> "c123"
                   [] OTHER -> "done"
        /\ result' = CASE r.status = "raise" -> Raise(r.error)
                       [] r.status = "return" /\ r.none ->
                            Raise(PyError("TypeError", "slice"))
                       [] OTHER -> result
  /\ UNCHANGED << config, held, op, args, subreddit, top_posts, si, pi, ci, heap,
                  data, counters >>

\* Variant: no pause between posts.
CourtesyDelaySkipped(n) == n

\* time.sleep(self.delay) at the end of the pass for one post (lines 130,
\* 209): one more pause.
CourtesyDelay(n) == n + 1

\* lines 122-130: the comprehension reads body and score of each comment
\* kept, then data.append(post_data) and time.sleep(self.delay).
Collect123(o) ==
  /\ pc = "c123"
  /\ o /= "ok" => comments /= << >>
  /\ IF o = "ok"
     THEN /\ heap' = [heap EXCEPT ![data] =
                        Append(@, PostRecord(top_posts[pi + 1], comments))]
          /\ pauses' = CourtesyDelay(pauses)
          /\ pi' = pi + 1
          /\ pc' = "c119"
          /\ result' = result
     ELSE /\ pc' = "done"
          /\ result' = Raise(Raised(o, "fields", pi + 1))
          /\ UNCHANGED << heap, pi, pauses >>
  /\ UNCHANGED << config, held, op, args, frame, subreddit, top_posts, si, ci,
                  comments, data, scores >>

\* ------------------------------------------------ perform_sentiment_analysis
\* TextBlob(text).sentiment.polarity: the external sentiment function, a
\* score between -1 and 1 that depends on the text alone.
Polarity(text) ==
  CASE text = TxtGreat -> 1
    [] text = TxtPlain -> 0 - 1
    [] OTHER -> 0

\* Variant: item.get(key, ""), which never raises.
LookupOrEmpty(item, key) ==
  [found |-> TRUE, value |-> IF key \in DOMAIN item THEN item[key] ELSE << >>]

\* item[key], line 153: a dict lookup finds the value or raises KeyError.
Lookup(item, key) ==
  IF key \in DOMAIN item
  THEN [found |-> TRUE, value |-> item[key]]
  ELSE [found |-> FALSE, value |-> << >>]

\* Variant: the polarity is computed and dropped.
ScoredNowhere(item, text) == item

\* Variant: the record is built anew from the text and its score.
ScoredAnew(item, text) ==
  ("Sentiment Score" :> Polarity(text)) @@ ("Comment Body" :> text)

\* lines 152-154: item["Sentiment Score"] = TextBlob(text).sentiment.polarity
Scored(item, text) == ("Sentiment Score" :> Polarity(text)) @@ item

\* The records a caller may hand over: flat rows (one of them scored
\* before), a row that lacks its body, and a nested post record.
FlatGreat == CommentRecord(Cmt(TxtGreat, 5))
FlatPlain == ("Sentiment Score" :> 1) @@ CommentRecord(Cmt(TxtPlain, 3))
NoBody == ("Upvotes" :> 4) @@ ("Subreddit" :> "r1")
Nested == PostRecord(Pst("P3", << >>), << Cmt(TxtPlain, 7) >>)
Items == {FlatGreat, FlatPlain, NoBody, Nested}

CallPerformSentimentAnalysis(list) ==
  /\ Ready
  /\ Enter("sentiment", [NoArgs EXCEPT !.data = Len(heap) + 1, !.input = list])
  /\ pc' = "s150"
  /\ heap' = Append(heap, list)
  /\ data' = Len(heap) + 1

\* perform_sentiment_analysis(data) where data is a list the caller holds
\* from an earlier call.
CallPerformSentimentAnalysisOn(id) ==
  /\ Ready
  /\ id \in DOMAIN heap
  /\ Enter("sentiment", [NoArgs EXCEPT !.data = id, !.input = heap[id]])
  /\ pc' = "s150"
  /\ heap' = heap
  /\ data' = id

\* lines 150-156: one pass of `for item in data`, or the return of data when
\* the loop ends.  Reached from a caller and from line 211.
Sentiment150 ==
  /\ pc = "s150"
  /\ IF ci < Len(heap[data])
     THEN LET item == heap[data][ci + 1]
              body == Lookup(item, "Comment Body")
          IN IF body.found
             THEN /\ heap' = [heap EXCEPT ![data][ci + 1] = Scored(item, body.value)]
                  /\ scores' = scores + 1
                  /\ ci' = ci + 1
                  /\ UNCHANGED << pc, result >>
             ELSE /\ pc' = "done"
                  /\ result' = Raise(PyError("KeyError", "Comment Body"))
                  /\ UNCHANGED << heap, scores, ci >>
     ELSE /\ pc' = "done"
          /\ result' = Return(data)
          /\ UNCHANGED << heap, scores, ci >>
  /\ UNCHANGED << config, held, op, args, frame, subreddit, top_posts, si, pi,
                  comments, data, pauses >>

\* ------------------------------------------------ track_keyword_discussions
KwAB == << "A", "B" >>
KwB == << "b" >>
KwEmpty == << >>
KeywordLists == { << >>, << KwAB >>, << KwB, KwAB >>, << KwEmpty >> }

\* The lists of subreddit names a caller asks for.
SubredditLists ==
  { << >>, << "r2" >>, << "r1", "r2" >>, << "r2", "r1" >>, << "r1", "r1" >> }

\* Variant: the test does not fold case.
MatchesCaseSensitive(body, keywords) ==
  \E k \in 1..Len(keywords) : contains(body, keywords[k])

\* lines 197-200: any(keyword.lower() in comment.body.lower() for keyword ...)
Matches(body, keywords) ==
  \E k \in 1..Len(keywords) : contains(lower(body), lower(keywords[k]))

\* comment_data, lines 201-206
Row(name, post, c) ==
  ("Subreddit" :> name) @@ ("Post Title" :> post.title) @@
  ("Comment Body" :> c.body) @@ ("Upvotes" :> c.score)

\* Variant: the row goes to the front of the list.
PrependRow(list, row) == << row >> \o list

\* data.append(comment_data), line 207
AppendRow(list, row) == Append(list, row)

\* The limit handed to subreddit.top, line 190.
TrackTopLimit(a) == a.post_limit

\* Variant: the comment list is not cut.
TrackCutNone(cs, a) == cs

\* The cut of the comment list, line 195.
TrackCut(cs, a) == Prefix(cs, a.comment_limit)

\* Variant: the rows always go through perform_sentiment_analysis.
WantsSentimentAlways(a) == TRUE

\* line 210: whether the rows go through perform_sentiment_analysis
WantsSentiment(a) == a.sentiment_analysis

CallTrackKeywordDiscussions(subs, kws, pl, cl, flag) ==
  /\ Ready
  /\ Enter("track", [NoArgs EXCEPT !.subreddits = subs, !.keywords = kws,
                                   !.post_limit = pl, !.comment_limit = cl,
                                   !.sentiment_analysis = flag,
                                   !.data = Len(heap) + 1])
  /\ pc' = "t186"
  /\ heap' = Append(heap, << >>)
  /\ data' = Len(heap) + 1

\* line 186: `for subreddit_name in subreddits` takes the next name; when
\* the loop ends, lines 210-212 hand data to perform_sentiment_analysis or
\* return it.
Track186 ==
  /\ pc = "t186"
  /\ IF si < Len(args.subreddits)
     THEN /\ pc' = "t187"
          /\ UNCHANGED << args, ci, result >>
     ELSE IF WantsSentiment(args)
          THEN /\ pc' = "s150"
               /\ ci' = 0
               /\ args' = [args EXCEPT !.input = heap[data]]
               /\ UNCHANGED result
          ELSE /\ pc' = "done"
               /\ result' = Return(data)
               /\ UNCHANGED << args, ci >>
  /\ UNCHANGED << config, held, op, frame, subreddit, top_posts, si, pi, comments,
                  heap, data, counters >>

\* lines 187-189: subreddit = self._retry_request(self.reddit.subreddit, name)
Track187(o) ==
  /\ pc = "t187"
  /\ LET r == retry_request(attempt, calls, o, "subreddit",
                            Subreddit(args.subreddits[si + 1]))
     IN /\ WrapperFrame(r, o)
        /\ subreddit' = (IF r.status = "return" THEN r.value ELSE subreddit)
        /\ pc' = CASE r.status = "again" -> "t187"
                   [] r.status = "return" -> "t190"
                   [] OTHER -> "done"
        /\ result' = (IF r.status = "raise" THEN Raise(r.error) ELSE result)
  /\ UNCHANGED << config, held, op, args, top_posts, si, pi, ci, comments, heap,
                  data, counters >>

\* line 190: top_posts = self._retry_request(subreddit.top, limit=post_limit)
Track190(o) ==
  /\ pc = "t190"
  /\ IF subreddit = None
     THEN /\ o = "ok"
          /\ pc' = "done"
          /\ result' = Raise(PyError("AttributeError", "top"))
          /\ UNCHANGED << frame, top_posts, pi >>
     ELSE LET r == retry_request(attempt, calls, o, "top",
                                 Top(subreddit, TrackTopLimit(args)))
          IN /\ WrapperFrame(r, o)
             /\ top_posts' = (IF r.status = "return" /\ ~r.none
                              THEN r.value ELSE top_posts)
             /\ pi' = (IF r.status = "return" THEN 0 ELSE pi)
             /\ pc' = CASE r.status = "again" -> "t190"
                        [] r.status = "return" /\ ~r.none -> "t192"
                        [] OTHER -> "done"
             /\ result' = CASE r.status = "raise" -> Raise(r.error)
                            [] r.status = "return" /\ r.none ->
                                 Raise(PyError("TypeError", "iter"))
                            [] OTHER -> result
  /\ UNCHANGED << config, held, op, args, subreddit, si, ci, comments, heap, data,
                  counters >>

\* line 192: `for post in top_posts` takes the next post from the client's
\* listing, or the loop ends and the loop over subreddits goes on.
Track192(o) ==
  /\ pc = "t192"
  /\ IF pi < Len(top_posts)
     THEN /\ pc' = (IF o = "ok" THEN "t193" ELSE "done")
          /\ result' = (IF o = "ok" THEN result
                        ELSE Raise(Raised(o, "iter", pi + 1)))
          /\ UNCHANGED si
     ELSE /\ o = "ok"
          /\ pc' = "t186"
          /\ si' = si + 1
          /\ UNCHANGED result
  /\ UNCHANGED << config, held, op, args, frame, subreddit, top_posts, pi, ci,
                  comments, heap, data, counters >>

\* lines 193-195: self._retry_request(lambda: list(post.comments))[:comment_limit]
Track193(o) ==
  /\ pc = "t193"
  /\ LET r == retry_request(attempt, calls, o, "comments",
                            CommentsOf(top_posts[pi + 1]))
     IN /\ WrapperFrame(r, o)
        /\ comments' = (IF r.status = "return" /\ ~r.none
                        THEN TrackCut(r.value, args) ELSE comments)
        /\ ci' = (IF r.status = "return" THEN 0 ELSE ci)
        /\ pc' = CASE r.status = "again" -> "t193"
                   [] r.status = "return" /\ ~r.none -> "t197"
                   [] OTHER -> "done"
        /\ result' = CASE r.status = "raise" -> Raise(r.error)
                       [] r.status = "return" /\ r.none ->
                            Raise(PyError("TypeError", "slice"))
                       [] OTHER -> result
  /\ UNCHANGED << config, held, op, args, subreddit, top_posts, si, pi, heap, data,
                  counters >>

\* lines 193-209: one pass of the loop over the comments kept (the test of
\* lines 197-200, which reads comment.body, and the append of line 207), or,
\* when that loop ends, time.sleep(self.delay) and the next post.
Track197(o) ==
  /\ pc = "t197"
  /\ IF ci < Len(comments)
     THEN /\ IF o = "ok"
             THEN /\ heap' = (IF Matches(comments[ci + 1].body, args.keywords)
                              THEN [heap EXCEPT ![data] =
                                      AppendRow(@, Row(args.subreddits[si + 1],
                                                       top_posts[pi + 1],
                                                       comments[ci + 1]))]
                              ELSE heap)
                  /\ ci' = ci + 1
                  /\ UNCHANGED << pc, result >>
             ELSE /\ pc' = "done"
                  /\ result' = Raise(Raised(o, "fields", ci + 1))
                  /\ UNCHANGED << heap, ci >>
          /\ UNCHANGED << pi, pauses >>
     ELSE /\ o = "ok"
          /\ pauses' = CourtesyDelay(pauses)
          /\ pi' = pi + 1
          /\ pc' = "t192"
          /\ UNCHANGED << heap, ci, result >>
  /\ UNCHANGED << config, held, op, args, frame, subreddit, top_posts, si, comments,
                  data, scores >>

\* The caller is done with the result of the call; the toolkit is free for
\* the next call.
Discard ==
  /\ pc = "done"
  /\ pc' = "idle"
  /\ op' = "none"
  /\ args' = NoArgs
  /\ attempt' = 0
  /\ calls' = 0
  /\ subreddit' = None
  /\ top_posts' = << >>
  /\ si' = 0
  /\ pi' = 0
  /\ ci' = 0
  /\ comments' = << >>
  /\ heap' = << >>
  /\ data' = 0
  /\ events' = << >>
  /\ outcomes' = << >>
  /\ pauses' = 0
  /\ scores' = 0
  /\ result' = NoResult
  /\ held' = << >>
  /\ UNCHANGED config

\* The caller keeps the list an operation returned and goes on to the next
\* call (a caller that holds one earlier list).
Keep ==
  /\ pc = "done"
  /\ result.kind = "return"
  /\ op \in {"collect", "sentiment", "track"}
  /\ held = << >>
  /\ pc' = "idle"
  /\ op' = "none"
  /\ args' = NoArgs
  /\ attempt' = 0
  /\ calls' = 0
  /\ subreddit' = None
  /\ top_posts' = << >>
  /\ si' = 0
  /\ pi' = 0
  /\ ci' = 0
  /\ comments' = << >>
  /\ heap' = << heap[result.value] >>
  /\ data' = 0
  /\ events' = << >>
  /\ outcomes' = << >>
  /\ pauses' = 0
  /\ scores' = 0
  /\ result' = NoResult
  /\ held' = << heap[result.value] >>
  /\ UNCHANGED config

\* ------------------------------------------------------------- properties
\* A direct call of _retry_request has ended.
RetryEnded == op = "retry" /\ pc = "done"

\* The invocations made so far went as the script says: an operation that
\* follows the script may have produced them.
Follows(script) ==
  \A i \in 1..Len(outcomes) : i <= Len(script) => outcomes[i] = script[i]

\* An operation that fails transiently on its first n - 1 invocations and
\* then succeeds.
FailsThenSucceeds(n) == [i \in 1..n |-> IF i < n THEN "transient" ELSE "ok"]

\* An operation that fails transiently on every invocation (as far as it
\* can be invoked).
AlwaysFails == [i \in 1..(MaxRetries + 2) |-> "transient"]

\* C1: with retries = N > 0, an operation that fails transiently on exactly
\* its first N-1 invocations and then succeeds makes the wrapper return the
\* value of that success, after exactly N invocations.
C1_SucceedsOnAttemptN ==
  (RetryEnded /\ retries > 0 /\ Follows(FailsThenSucceeds(retries)))
    => /\ result = Return(Returned("func", retries))
       /\ Len(outcomes) = retries
       /\ calls = retries

C1_Witness ==
  /\ RetryEnded
  /\ retries = MaxRetries
  /\ outcomes = FailsThenSucceeds(MaxRetries)
  /\ result.kind = "return"

\* C2 as stated: for every retries = N, an operation that fails transiently
\* on every invocation makes the wrapper raise the operation's own error
\* after exactly N invocations, never return.
C2_AsStated ==
  (RetryEnded /\ Follows(AlwaysFails))
    => /\ result.kind = "raise"
       /\ result.error = Raised("transient", "func", retries)
       /\ Len(outcomes) = retries

\* C2, amended: for every retries = N >= 1, an operation that fails
\* transiently on every invocation makes the wrapper raise after exactly N
\* invocations, and the error raised is the error of the N-th invocation,
\* as the operation raised it.
C2_RaisesAfterNFailures ==
  (RetryEnded /\ retries >= 1 /\ Follows(AlwaysFails))
    => /\ result = Raise(Raised("transient", "func", retries))
       /\ Len(outcomes) = retries
       /\ calls = retries

C2_Witness ==
  /\ RetryEnded
  /\ retries = MaxRetries
  /\ Len(outcomes) = MaxRetries
  /\ \A i \in 1..MaxRetries : outcomes[i] = "transient"
  /\ result.kind = "raise"

\* C3: whatever retries is, when the first invocation fails with an error
\* that is not a RequestException, the wrapper has ended at once: it raises
\* that error, and the operation was invoked exactly once (no log, no wait).
C3_NonTransientNotRetried ==
  (op = "retry" /\ outcomes /= << >> /\ outcomes[1] = "fatal")
    => /\ pc = "done"
       /\ result = Raise(Raised("fatal", "func", 1))
       /\ Len(outcomes) = 1
       /\ calls = 1
       /\ events = << Ev("invoke", "func", 1) >>

C3_Witness ==
  /\ RetryEnded
  /\ retries = MaxRetries
  /\ outcomes = << "fatal" >>
  /\ result.kind = "raise"
  /\ result.error.class = "OtherError"

Min(a, b) == IF a < b THEN a ELSE b

\* C4: a call of collect_top_posts that returns gives one Post record per
\* post of the listing of the named subreddit, in the listing's order; each
\* record holds the post's title and the first min(comment_limit, number of
\* comments) comments of the post, in their order, each with exactly the
\* fields Comment Body and Upvotes.
C4_OnePostRecordPerPost ==
  (op = "collect" /\ pc = "done" /\ result.kind = "return")
    => LET d == heap[result.value]
           listed == Site[args.subreddit_name]
       IN /\ top_posts = [i \in 1..Min(args.post_limit, Len(listed)) |-> listed[i]]
          /\ Len(d) = Len(top_posts)
          /\ \A i \in 1..Len(d) :
               LET cs == d[i]["Comments"]
                   src == top_posts[i].comments
               IN /\ DOMAIN d[i] = {"Post Title", "Comments"}
                  /\ d[i]["Post Title"] = top_posts[i].title
                  /\ Len(cs) = Min(args.comment_limit, Len(src))
                  /\ \A j \in 1..Len(cs) :
                       /\ DOMAIN cs[j] = {"Comment Body", "Upvotes"}
                       /\ cs[j]["Comment Body"] = src[j].body
                       /\ cs[j]["Upvotes"] = src[j].score

\* The case of the spec: two posts asked for, one comment each, and the
\* first post has more comments than that.
C4_Witness ==
  /\ op = "collect" /\ pc = "done" /\ result.kind = "return"
  /\ args.post_limit = 2 /\ args.comment_limit = 1
  /\ Len(heap[result.value]) = 2
  /\ Len(top_posts[1].comments) > 1
  /\ Len(heap[result.value][1]["Comments"]) = 1

\* Case folding and substring, as the claims speak of them.
Folded(s) ==
  [i \in 1..Len(s) |-> IF s[i] = "A" THEN "a" ELSE IF s[i] = "B" THEN "b" ELSE s[i]]

OccursIn(k, s) ==
  \E a \in 0..Len(s) :
    /\ a + Len(k) <= Len(s)
    /\ \A i \in 1..Len(k) : s[a + i] = k[i]

Hit(body, keywords) ==
  \E k \in 1..Len(keywords) : OccursIn(Folded(keywords[k]), Folded(body))

IsRowOf(row, name, post, c) ==
  /\ DOMAIN row = {"Subreddit", "Post Title", "Comment Body", "Upvotes"}
  /\ row["Subreddit"] = name
  /\ row["Post Title"] = post.title
  /\ row["Comment Body"] = c.body
  /\ row["Upvotes"] = c.score

\* C5: in track_keyword_discussions, scanning one comment adds exactly one
\* flat row {Subreddit, Post Title, Comment Body, Upvotes} at the end of the
\* result when some keyword, case-folded, is a substring of the comment
\* body, case-folded, and leaves the result as it is otherwise (so several
\* matching keywords give one row, and no keyword gives none).
C5_OneRowPerMatchingComment ==
  [][ (pc = "t197" /\ ci < Len(comments) /\ ci' = ci + 1)
        => LET c == comments[ci + 1]
               before == heap[data]
               after == heap'[data]
           IN IF Hit(c.body, args.keywords)
              THEN /\ Len(after) = Len(before) + 1
                   /\ SubSeq(after, 1, Len(before)) = before
                   /\ IsRowOf(after[Len(after)], args.subreddits[si + 1],
                              top_posts[pi + 1], c)
              ELSE after = before ]_vars

\* A comment that matches both keywords of the list (the second one only
\* after case folding) has been scanned and has given one row.
C5_Witness ==
  /\ op = "track" /\ pc = "t197"
  /\ args.keywords = << KwB, KwAB >>
  /\ si = 0 /\ pi = 0 /\ ci = 1
  /\ comments[1].body = TxtGreat
  /\ Len(heap[data]) = 1

\* The rows the claims expect, listed by subreddit, then post, then comment.
RECURSIVE Flat(_)
Flat(ss) == IF ss = << >> THEN << >> ELSE Head(ss) \o Flat(Tail(ss))

ExpectedRow(name, post, c) ==
  [k \in {"Subreddit", "Post Title", "Comment Body", "Upvotes"} |->
     CASE k = "Subreddit" -> name
       [] k = "Post Title" -> post.title
       [] k = "Comment Body" -> c.body
       [] OTHER -> c.score]

RowsOfPost(name, post, a) ==
  LET cs == post.comments
      scanned == [j \in 1..Min(a.comment_limit, Len(cs)) |-> cs[j]]
      IsHit(c) == Hit(c.body, a.keywords)
      kept == SelectSeq(scanned, IsHit)
  IN [j \in 1..Len(kept) |-> ExpectedRow(name, post, kept[j])]

RowsOfSubreddit(name, a) ==
  LET listed == Site[name]
  IN Flat([p \in 1..Min(a.post_limit, Len(listed)) |->
             RowsOfPost(name, listed[p], a)])

ExpectedRows(a) ==
  Flat([s \in 1..Len(a.subreddits) |-> RowsOfSubreddit(a.subreddits[s], a)])

Unscored(row) == [k \in (DOMAIN row) \ {"Sentiment Score"} |-> row[k]]

C7_SentimentOnlyOnRequest ==
  (op = "track" /\ pc = "done" /\ result.kind = "return")
    => LET d == heap[result.value]
       IN IF args.sentiment_analysis
          THEN \A i \in 1..Len(d) : "Sentiment Score" \in DOMAIN d[i]
          ELSE /\ \A i \in 1..Len(d) : "Sentiment Score" \notin DOMAIN d[i]
               /\ scores = 0

C7_Witness ==
  /\ op = "track" /\ pc = "done" /\ result.kind = "return"
  /\ args.sentiment_analysis
  /\ Len(heap[result.value]) >= 2
  /\ scores = Len(heap[result.value])

\* perform_sentiment_analysis is running or has ended, entered with the
\* list args.input (from a caller, or from line 211).
InSentiment == pc = "s150" \/ (pc = "done" /\ op = "sentiment")

\* C8: perform_sentiment_analysis returns the list it was given (the same
\* object), and at every moment that list has the records it had at entry,
\* as many and in the same order, each with every field but Sentiment
\* Score unchanged and no field added but Sentiment Score.
C8_OnlySentimentScoreChanges ==
  InSentiment
    => LET now == heap[data]
           was == args.input
       IN /\ data = args.data
          /\ result.kind = "return" => result.value = args.data
          /\ Len(now) = Len(was)
          /\ \A i \in 1..Len(now) :
               /\ DOMAIN was[i] \subseteq DOMAIN now[i]
               /\ DOMAIN now[i] \subseteq (DOMAIN was[i]) \cup {"Sentiment Score"}
               /\ \A k \in (DOMAIN was[i]) \ {"Sentiment Score"} :
                    now[i][k] = was[i][k]

\* Two well-formed records have been scored, one of them for the second
\* time, and the list has been returned.
C8_Witness ==
  /\ op = "sentiment" /\ pc = "done" /\ result.kind = "return"
  /\ args.input = << FlatGreat, FlatPlain >>
  /\ heap[result.value][1]["Sentiment Score"] = 1
  /\ heap[result.value][2]["Sentiment Score"] /= FlatPlain["Sentiment Score"]

\* C9: perform_sentiment_analysis on a list with a record that has no
\* Comment Body field ends by raising the KeyError of the lookup, at the
\* first such record; it returns nothing and the retry wrapper is not
\* involved.
C9_MissingBodyRaises ==
  (op = "sentiment" /\ pc = "done"
     /\ \E i \in 1..Len(args.input) : "Comment Body" \notin DOMAIN args.input[i])
    => /\ result = Raise(PyError("KeyError", "Comment Body"))
       /\ "Comment Body" \notin DOMAIN args.input[ci + 1]
       /\ \A i \in 1..ci : "Comment Body" \in DOMAIN args.input[i]
       /\ calls = 0 /\ attempt = 0 /\ events = << >> /\ outcomes = << >>

\* A nested Post record, after a well-formed record, has made the call fail.
C9_Witness ==
  /\ op = "sentiment" /\ pc = "done"
  /\ args.input = << FlatGreat, Nested >>
  /\ result.kind = "raise"

\* C10: with positive limits, collect_top_posts never holds more than
\* post_limit Post records nor more than comment_limit comments in a
\* record, and track_keyword_discussions never scans more than post_limit
\* posts of a subreddit nor more than comment_limit comments of a post.
C10_LimitsBound ==
  /\ (op = "collect" /\ data /= 0)
       => /\ Len(heap[data]) <= args.post_limit
          /\ Len(top_posts) <= args.post_limit
          /\ \A i \in 1..Len(heap[data]) :
               Len(heap[data][i]["Comments"]) <= args.comment_limit
  /\ (op = "track" /\ pc \in {"t186", "t187", "t190", "t192", "t193", "t197"})
       => /\ pi <= args.post_limit
          /\ Len(top_posts) <= args.post_limit
          /\ ci <= args.comment_limit
          /\ Len(comments) <= args.comment_limit

\* The limits have cut both a listing and a comment list that were longer.
C10_Witness ==
  /\ op = "collect" /\ pc = "done" /\ result.kind = "return"
  /\ Len(heap[data]) = args.post_limit
  /\ Len(Site[args.subreddit_name]) > args.post_limit
  /\ Len(heap[data][1]["Comments"]) = args.comment_limit
  /\ Len(top_posts[1].comments) > args.comment_limit

\* How many entries of a kind the trace of the wrapper call holds.
Count(kind) == Cardinality({i \in DOMAIN events : events[i].e = kind})

\* C11: within one _retry_request call every wait lasts self.delay and
\* comes right after a transiently failed attempt (and its log entry) and
\* right before the next invocation; every invocation but the first comes
\* right after a wait; a call that has ended has no wait after its last
\* attempt, so k >= 1 attempts make k - 1 waits.
C11_WaitsOnlyBetweenAttempts ==
  /\ \A i \in DOMAIN events :
       events[i].e = "sleep"
         => /\ events[i].n = delay
            /\ i >= 3
            /\ events[i - 1].e = "log"
            /\ events[i - 2].e = "invoke"
            /\ outcomes[events[i - 2].n] = "transient"
            /\ i < Len(events) => events[i + 1].e = "invoke"
            /\ pc = "done" => i < Len(events)
  /\ \A i \in DOMAIN events :
       (events[i].e = "invoke" /\ i > 1) => events[i - 1].e = "sleep"
  /\ Count("invoke") = Len(outcomes)
  /\ (pc = "done" /\ Len(outcomes) >= 1) => Count("sleep") = Len(outcomes) - 1
  /\ (pc /= "done" /\ outcomes /= << >>) => Count("sleep") = Len(outcomes)

\* Three attempts, two waits: the call succeeded on its last attempt.
C11_Witness ==
  /\ RetryEnded
  /\ retries = MaxRetries
  /\ Len(outcomes) = MaxRetries
  /\ Count("sleep") = MaxRetries - 1
  /\ result.kind = "return"

\* The log entries that follow invocation j in the trace, before the next
\* invocation.
LogsOf(j) ==
  {i \in DOMAIN events :
     /\ events[i].e = "log"
     /\ \E a \in 1..(i - 1) :
          /\ events[a] = Ev("invoke", events[i].site, j)
          /\ \A b \in (a + 1)..(i - 1) : events[b].e /= "invoke"}

\* C12 as stated: every invocation that raises, whatever the class of the
\* error, has exactly one log entry, and an invocation that succeeds has
\* none.
C12_AsStated ==
  \A j \in DOMAIN outcomes :
    Cardinality(LogsOf(j)) = (IF outcomes[j] = "ok" THEN 0 ELSE 1)

\* C12, amended: every invocation that raises a RequestException has
\* exactly one log entry, which carries the 1-based attempt number and the
\* error raised, and which comes right after the invocation (so before the
\* next attempt and before the failure reaches the caller); an invocation
\* that succeeds or raises an error of another class has none.
C12_TransientFailuresLogged ==
  /\ \A j \in DOMAIN outcomes :
       Cardinality(LogsOf(j)) = (IF outcomes[j] = "transient" THEN 1 ELSE 0)
  /\ \A i \in DOMAIN events :
       events[i].e = "log"
         => /\ i >= 2
            /\ events[i - 1] = Ev("invoke", events[i].site, events[i].n)
            /\ events[i].n = Count("log") - Cardinality({k \in DOMAIN events :
                                         k > i /\ events[k].e = "log"})
            /\ events[i].err = Raised("transient", events[i].site, events[i].n)
  /\ Count("log") = Cardinality({j \in DOMAIN outcomes : outcomes[j] = "transient"})

\* Every attempt failed transiently and each left its log entry.
C12_Witness ==
  /\ RetryEnded
  /\ retries = MaxRetries
  /\ result.kind = "raise"
  /\ Count("log") = MaxRetries
  /\ events[Len(events)] = LogEntry("func", MaxRetries,
                                    Raised("transient", "func", MaxRetries))

\* The posts of the listings of the first k subreddits of a call of
\* track_keyword_discussions.
PostsListed(a, k) ==
  Flat([s \in 1..k |-> Top(Subreddit(a.subreddits[s]), a.post_limit)])

\* C13: in collect_top_posts and in track_keyword_discussions the pauses
\* made so far are as many as the posts whose comments have been fetched
\* and handled: while a post's comments are fetched or handled its own
\* pause has not been made, and when the next post is taken it has; a call
\* that returns has made one pause for every post of every listing.
C13_OneDelayPerPost ==
  /\ op = "collect" =>
       /\ pauses = pi
       /\ (pc = "done" /\ result.kind = "return") =>
            pauses = Len(Top(Subreddit(args.subreddit_name), args.post_limit))
  /\ op = "track" =>
       /\ pc \in {"t186", "t187", "t190"} =>
            pauses = Len(PostsListed(args, si))
       /\ pc \in {"t192", "t193", "t197"} =>
            pauses = Len(PostsListed(args, si)) + pi
       /\ (pc = "s150" \/ (pc = "done" /\ result.kind = "return")) =>
            pauses = Len(PostsListed(args, Len(args.subreddits)))

\* A call over two subreddits returned after three posts and three pauses.
C13_Witness ==
  /\ op = "track"
  /\ pc = "done"
  /\ result.kind = "return"
  /\ Len(args.subreddits) = 2
  /\ pauses = 3

\* The calls of the client that the operations hand to _retry_request.
WrappedSites == {"subreddit", "top", "comments"}

\* A call of collect_top_posts or track_keyword_discussions has ended.
PipelineEnded == op \in {"collect", "track"} /\ pc = "done"

\* The wrapper call in progress when the operation ended made all its
\* attempts and each failed transiently.
RetriesExhausted ==
  /\ Len(outcomes) = retries
  /\ \A j \in DOMAIN outcomes : outcomes[j] = "transient"

\* C14 as stated: every use of the client is made inside _retry_request,
\* so a RequestException ends collect_top_posts or
\* track_keyword_discussions only when it was raised by a call handed to
\* the wrapper and all the attempts of that wrapper call have failed
\* (stated for retries >= 2, where a retry differs from none).
C14_AsStated ==
  (PipelineEnded /\ retries >= 2 /\ result.kind = "raise"
     /\ result.error.class = "RequestException")
    => /\ result.error.site \in WrappedSites
       /\ RetriesExhausted

WrapperPcs == {"retry", "c115", "c116", "c124", "t187", "t190", "t193"}

\* The lists the caller holds from earlier calls are as they were returned.
HeldIntact == \A i \in DOMAIN held : heap[i] = held[i]

\* The list an ended call returned is none of the lists held from earlier
\* calls.
ResultFresh ==
  (pc = "done" /\ result.kind = "return") => result.value \notin DOMAIN held

\* The running wrapper call counts only its own attempts: it started at
\* attempt 1 and has used as much of its budget as it has failed.
WrapperFresh ==
  pc \in WrapperPcs
    => /\ attempt = Len(outcomes)
       /\ calls = Len(outcomes)
       /\ \A j \in DOMAIN outcomes : outcomes[j] = "transient"
       /\ retries >= 1 => Len(outcomes) < retries
       /\ \A i \in DOMAIN events : events[i].n <= Len(outcomes)

\* C16 as stated: no step changes retries, delay or the client handle; in
\* every operation the lists held from earlier calls stay as they were and
\* the list returned is a new one; every wrapper call starts afresh.
C16_AsStated ==
  [][/\ config' = config
     /\ (op \in {"retry", "collect", "sentiment", "track"} => HeldIntact)'
     /\ (op \in {"collect", "sentiment", "track"} => ResultFresh)'
     /\ WrapperFresh']_vars

\* C16, amended: no step changes retries, delay or the client handle; in
\* _retry_request, collect_top_posts and track_keyword_discussions the
\* lists held from earlier calls stay as they were, and the list
\* collect_top_posts or track_keyword_discussions returns is a new one;
\* perform_sentiment_analysis returns the list it was handed; every wrapper
\* call starts afresh.
C16_NothingCarriedOver ==
  [][/\ config' = config
     /\ (op \in {"retry", "collect", "track"} => HeldIntact)'
     /\ (op \in {"collect", "track"} => ResultFresh)'
     /\ ((op = "sentiment" /\ pc = "done" /\ result.kind = "return")
           => result.value = args.data)'
     /\ WrapperFresh']_vars

\* A second call returned its own rows while the caller held the rows of
\* the first, and a wrapper call of the second call had to retry.
C16_Witness ==
  /\ held /= << >>
  /\ held[1] /= << >>
  /\ op = "track"
  /\ pc = "done"
  /\ result.kind = "return"
  /\ result.value = 2
  /\ heap[2] /= << >>
  /\ heap[1] = held[1]

\* The invocations of a wrapper call that did not fail transiently.
Decisive == {j \in DOMAIN outcomes : outcomes[j] /= "transient"}

\* C17: with retries = N >= 1 a direct call of _retry_request that has
\* ended made min(N, j) invocations, j the first invocation that did not
\* fail transiently (N when there is none); only the last invocation can
\* be such a one, so the operation is never invoked after it; and the call
\* ended as its last invocation did: it returned that value or raised that
\* error.  While the call runs every invocation so far failed transiently
\* and fewer than N were made.
C17_InvocationsAreMinNJ ==
  (op = "retry" /\ retries >= 1)
    => LET k == Len(outcomes)
       IN /\ calls = k
          /\ k <= retries
          /\ Decisive \subseteq {k}
          /\ pc = "retry" => (Decisive = {} /\ k < retries)
          /\ pc = "done" =>
               /\ k >= 1
               /\ k = (IF Decisive = {} THEN retries
                       ELSE Min(retries, CHOOSE j \in Decisive :
                                           \A h \in Decisive : j <= h))
               /\ result = (IF outcomes[k] = "ok"
                            THEN Return(Returned("func", k))
                            ELSE Raise(Raised(outcomes[k], "func", k)))

\* A transient failure, then a non-transient one on the second of three
\* attempts allowed: the call ended there with that error.
C17_Witness ==
  /\ RetryEnded
  /\ retries = MaxRetries
  /\ outcomes = << "transient", "fatal" >>
  /\ result = Raise(Raised("fatal", "func", 2))

\* C18: with retries <= 0 a direct call of _retry_request never invokes
\* the operation, never waits and never logs, and it ends by returning
\* None, not by raising.
C18_NoAttemptReturnsNone ==
  (op = "retry" /\ retries <= 0)
    => /\ calls = 0
       /\ attempt = 0
       /\ outcomes = << >>
       /\ events = << >>
       /\ pc = "done" => result = Return(None)

\* Such a call has ended.
C18_Witness ==
  /\ RetryEnded
  /\ retries = 0
  /\ result = Return(None)
  /\ events = << >>

\* C19: when perform_sentiment_analysis raises, the record at the position
\* i it stopped at is the first without a Comment Body; every record before
\* i has its Sentiment Score, the polarity of its Comment Body; every
\* record from i on is as it was handed over.
C19_PartlyScoredAtError ==
  (op = "sentiment" /\ pc = "done" /\ result.kind = "raise")
    => LET d == heap[data]
           i == ci + 1
       IN /\ Len(d) = Len(args.input)
          /\ i \in DOMAIN d
          /\ "Comment Body" \notin DOMAIN args.input[i]
          /\ \A k \in 1..(i - 1) :
               /\ "Comment Body" \in DOMAIN args.input[k]
               /\ "Sentiment Score" \in DOMAIN d[k]
               /\ d[k]["Sentiment Score"] = Polarity(args.input[k]["Comment Body"])
          /\ \A k \in i..Len(d) : d[k] = args.input[k]

\* The second record had no Comment Body: the first one was scored, and
\* the caller's list is no longer what it was.
C19_Witness ==
  /\ op = "sentiment"
  /\ pc = "done"
  /\ result.kind = "raise"
  /\ ci = 1
  /\ "Sentiment Score" \notin DOMAIN args.input[1]
  /\ "Sentiment Score" \in DOMAIN heap[data][1]
  /\ heap[data] /= args.input

Next ==
  \/ CallRetryRequest
  \/ \E o \in Outcomes : RetryRequestStep(o)
  \/ \E name \in SubredditNames, pl \in 1..MaxPostLimit, cl \in 1..MaxCommentLimit :
       CallCollectTopPosts(name, pl, cl)
  \/ \E o \in Outcomes : Collect115(o)
  \/ \E o \in Outcomes : Collect116(o)
  \/ \E o \in Outcomes : Collect119(o)
  \/ \E o \in Outcomes : Collect121(o)
  \/ \E o \in Outcomes : Collect124(o)
  \/ \E o \in Outcomes : Collect123(o)
  \/ \E list \in SeqsUpTo(Items, MaxItems) : CallPerformSentimentAnalysis(list)
  \/ Sentiment150
  \/ \E subs \in SubredditLists, kws \in KeywordLists,
        pl \in 1..MaxPostLimit, cl \in 1..MaxCommentLimit, flag \in BOOLEAN :
       CallTrackKeywordDiscussions(subs, kws, pl, cl, flag)
  \/ Track186
  \/ \E o \in Outcomes : Track187(o)
  \/ \E o \in Outcomes : Track190(o)
  \/ \E o \in Outcomes : Track192(o)
  \/ \E o \in Outcomes : Track193(o)
  \/ \E o \in Outcomes : Track197(o)
  \/ Discard

Spec == Init /\ [][Next]_vars

\* Two calls in a row on one toolkit: the caller may keep the list the
\* first call returned and may hand it to perform_sentiment_analysis.
NextKept ==
  \/ CallRetryRequest
  \/ \E o \in Outcomes : RetryRequestStep(o)
  \/ \E name \in SubredditNames, cl \in 1..MaxCommentLimit :
       CallCollectTopPosts(name, 1, cl)
  \/ \E o \in Outcomes : Collect115(o)
  \/ \E o \in Outcomes : Collect116(o)
  \/ \E o \in Outcomes : Collect119(o)
  \/ \E o \in Outcomes : Collect121(o)
  \/ \E o \in Outcomes : Collect124(o)
  \/ \E o \in Outcomes : Collect123(o)
  \/ \E list \in SeqsUpTo(Items, 1) : CallPerformSentimentAnalysis(list)
  \/ \E id \in DOMAIN heap : CallPerformSentimentAnalysisOn(id)
  \/ Sentiment150
  \/ \E kws \in {<< KwAB >>, << KwB, KwAB >>}, flag \in BOOLEAN :
       CallTrackKeywordDiscussions(<< "r2" >>, kws, 1, MaxCommentLimit, flag)
  \/ Track186
  \/ \E o \in Outcomes : Track187(o)
  \/ \E o \in Outcomes : Track190(o)
  \/ \E o \in Outcomes : Track192(o)
  \/ \E o \in Outcomes : Track193(o)
  \/ \E o \in Outcomes : Track197(o)
  \/ Keep
  \/ Discard

SpecKept == Init /\ [][NextKept]_vars

====
